---- MODULE Spec2Model ----
(***************************************************************************)
(* Model of two pieces of the CPU execution-preparation core:              *)
(*                                                                         *)
(*  - ExecutorFactory<Attrs> (executor_factory.hpp): the constructor runs  *)
(*    filter() over the implementation registry, then                      *)
(*    getProperMemoryDescriptors() and make() work on the candidate list   *)
(*    m_suitableImplementations.                                           *)
(*  - ConvertTopK11ToTopK3 (convert_topk11_downgrade.cpp): the matcher     *)
(*    callback that replaces a TopK-v11 node by a TopK-v3 node.            *)
(*                                                                         *)
(* Spec     explores the factory, PassSpec explores the rewrite pass.      *)
(***************************************************************************)
EXTENDS Integers, Sequences, FiniteSets, TLC

(***************************************************************************)
(* Bounds and value domains                                                *)
(***************************************************************************)
\* longest registry whose entries are drawn freely, names included
MaxImpls == 2

\* physical format tags of a memory descriptor
Formats == {"F1", "F2"}

\* names of freely drawn registry entries, and every name an override can ask
\* for; "" is the empty std::string (no priority override)
ImplNames == {"A", "B"}
PriorityNames == <<"A", "B", "C">>
Names == {PriorityNames[i] : i \in DOMAIN PriorityNames}

\* the one attribute instance and the one execution context handle
AttrsSet == {"X"}
Contexts == {"ctx"}

\* MemoryDescArgs: the descriptors of a node's memory arguments
MemoryDescArgs == Formats

\* MemoryArgs: realized memory, a descriptor plus the buffer behind it
MemoryArgs == [desc : Formats, data : {"buf"}]

\* MemoryFormatFilter: {} is the empty filter, otherwise the accepted tags
MemoryFormatFilters == {{}, {"F1"}}

NoLayout == "none"

(***************************************************************************)
(* Implementation descriptors (ExecutorImplementation<Attrs>)              *)
(***************************************************************************)
ExecutorImplementations ==
    [name : ImplNames, formats : SUBSET Formats \ {{}},
     shapeAgnostic : BOOLEAN, required : Formats \cup {NoLayout}]

\* executor::Config<Attrs>{descs, attrs}
Config(descs, attrs) == [descs |-> descs, attrs |-> attrs]

\* ExecutorImplementation::supports(config, memoryFormatFilter)
supports(implementation, config, memoryFormatFilter) ==
    /\ config.descs \in implementation.formats
    /\ \/ memoryFormatFilter = {}
       \/ config.descs \in memoryFormatFilter

NoFallback == [none |-> TRUE]

\* ExecutorImplementation::requiresFallback(config): std::optional<Config>
requiresFallback(implementation, config) ==
    IF implementation.required # NoLayout /\ config.descs # implementation.required
    THEN Config(implementation.required, config.attrs)
    ELSE NoFallback

\* ExecutorImplementation::create(attrs, memory, context)
create(implementation, attrs, memory, context) ==
    [kind |-> "Simple", name |-> implementation.name, attrs |-> attrs,
     memory |-> memory, context |-> context]

\* GraphEmitter<Attrs>::createConfig(memory, attrs)
createConfig(memory, attrs) == Config(memory.desc, attrs)

\* GraphEmitter<Attrs>::fallback(config, fallbackConfig, memory, context, name)
fallback(config, fallbackConfig, memory, context, name) ==
    [kind |-> "Fallback", name |-> name, config |-> config,
     fallbackConfig |-> fallbackConfig, memory |-> memory, context |-> context]

\* std::make_shared<VariableExecutor<Attrs>>(memory, attrs, context, impls)
VariableExecutor(memory, attrs, context, suitableImplementations) ==
    [kind |-> "Variable", memory |-> memory, attrs |-> attrs,
     context |-> context, implementations |-> suitableImplementations]

(***************************************************************************)
(* The registry: getImplementations<Attrs>(), a static priority-ordered    *)
(* list.  Candidates refer to entries by position (reference_wrapper).     *)
(***************************************************************************)
\* registries of up to MaxImpls entries, each entry drawn freely
BoundedRegistries ==
    UNION {[1..n -> ExecutorImplementations] : n \in 0..MaxImpls}

\* registries whose entries carry the names A, B, C in priority order and
\* are otherwise drawn freely
DistinctRegistries ==
    {[i \in DOMAIN PriorityNames |->
        [name |-> PriorityNames[i], formats |-> f[i],
         shapeAgnostic |-> sa[i], required |-> rq[i]]] :
        f \in [DOMAIN PriorityNames -> SUBSET Formats \ {{}}],
        sa \in [DOMAIN PriorityNames -> BOOLEAN],
        rq \in [DOMAIN PriorityNames -> Formats \cup {NoLayout}]}

\* A supports F1 only; B supports F1 and F2, shape-agnostic; C supports F2 only
ScenarioRegistries ==
    {reg \in DistinctRegistries :
        /\ reg[1].formats = {"F1"}
        /\ reg[2].formats = {"F1", "F2"}
        /\ reg[2].shapeAgnostic
        /\ reg[3].formats = {"F2"}}

Registries == BoundedRegistries \cup DistinctRegistries

VARIABLES
    registry,                   \* getImplementations<Attrs>()
    phase,                      \* "Unresolved", "Filtered", "Failed"
    m_attrs,
    m_context,
    m_suitableImplementations,  \* positions in registry, in priority order
    ctorArgs,                   \* the arguments the constructor was given
    asked,                      \* entries whose supports() ran in filter()
    error,                      \* message of the failed OPENVINO_ASSERT
    ret,                        \* the last call on the factory and its result
    events,                     \* executor-creation events of the factory so far
    nodes,                      \* the graph: node id -> node record
    vetoed,                     \* names the veto callback answers true for
    passRet,                    \* the last pass application and its result
    callLog,                    \* what the last callback run called, in order
    driverState,                \* "idle", "sweeping", "done", "ceiling"
    pending,                    \* nodes the current sweep has yet to visit
    sweepChanged,               \* the pass returned true in the current sweep
    sweeps,                     \* completed sweeps
    successes,                  \* applications that returned true
    startV11                    \* TopK-v11 nodes in the graph the driver was given

factoryVars == <<registry, phase, m_attrs, m_context,
                 m_suitableImplementations, ctorArgs, asked, error, ret,
                 events>>

passVars == <<nodes, vetoed, passRet, callLog>>

driverVars == <<driverState, pending, sweepChanged, sweeps, successes,
                startV11>>

vars == <<factoryVars, passVars, driverVars>>

NoArgs == [none |-> TRUE]
NoRet == [op |-> "none"]

(***************************************************************************)
(* ExecutorFactory::filter                                                 *)
(***************************************************************************)
\* filterLoop with the candidate put in front of the list instead of behind
RECURSIVE filterLoopPrepend(_, _, _, _, _, _, _)
filterLoopPrepend(implementations, i, config, memoryFormatFilter, implementationPriority, suitable, queried) ==
    IF i > Len(implementations)
    THEN [suitable |-> suitable, queried |-> queried]
    ELSE LET implementation == implementations[i] IN
         IF /\ implementationPriority # ""
            /\ implementation.name # implementationPriority
         THEN filterLoopPrepend(implementations, i + 1, config,
                                memoryFormatFilter, implementationPriority,
                                suitable, queried)
         ELSE IF ~supports(implementation, config, memoryFormatFilter)
         THEN filterLoopPrepend(implementations, i + 1, config,
                                memoryFormatFilter, implementationPriority,
                                suitable, queried \cup {i})
         ELSE IF implementation.shapeAgnostic
         THEN [suitable |-> <<i>> \o suitable, queried |-> queried \cup {i}]
         ELSE filterLoopPrepend(implementations, i + 1, config,
                                memoryFormatFilter, implementationPriority,
                                <<i>> \o suitable, queried \cup {i})

\* filterLoop without the break after a shape-agnostic implementation
RECURSIVE filterLoopNoBreak(_, _, _, _, _, _, _)
filterLoopNoBreak(implementations, i, config, memoryFormatFilter, implementationPriority, suitable, queried) ==
    IF i > Len(implementations)
    THEN [suitable |-> suitable, queried |-> queried]
    ELSE LET implementation == implementations[i] IN
         IF /\ implementationPriority # ""
            /\ implementation.name # implementationPriority
         THEN filterLoopNoBreak(implementations, i + 1, config,
                                memoryFormatFilter, implementationPriority,
                                suitable, queried)
         ELSE IF ~supports(implementation, config, memoryFormatFilter)
         THEN filterLoopNoBreak(implementations, i + 1, config,
                                memoryFormatFilter, implementationPriority,
                                suitable, queried \cup {i})
         ELSE filterLoopNoBreak(implementations, i + 1, config,
                                memoryFormatFilter, implementationPriority,
                                Append(suitable, i), queried \cup {i})

\* filterLoop that asks supports() before it compares the name
RECURSIVE filterLoopSupportsFirst(_, _, _, _, _, _, _)
filterLoopSupportsFirst(implementations, i, config, memoryFormatFilter, implementationPriority, suitable, queried) ==
    IF i > Len(implementations)
    THEN [suitable |-> suitable, queried |-> queried]
    ELSE LET implementation == implementations[i] IN
         IF ~supports(implementation, config, memoryFormatFilter)
         THEN filterLoopSupportsFirst(implementations, i + 1, config,
                                      memoryFormatFilter,
                                      implementationPriority, suitable,
                                      queried \cup {i})
         ELSE IF /\ implementationPriority # ""
                 /\ implementation.name # implementationPriority
         THEN filterLoopSupportsFirst(implementations, i + 1, config,
                                      memoryFormatFilter,
                                      implementationPriority, suitable,
                                      queried \cup {i})
         ELSE IF implementation.shapeAgnostic
         THEN [suitable |-> Append(suitable, i), queried |-> queried \cup {i}]
         ELSE filterLoopSupportsFirst(implementations, i + 1, config,
                                      memoryFormatFilter,
                                      implementationPriority,
                                      Append(suitable, i), queried \cup {i})

\* filterLoop that stops at the first unsupported implementation instead of
\* going on to the next
RECURSIVE filterLoopStopsAtUnsupported(_, _, _, _, _, _, _)
filterLoopStopsAtUnsupported(implementations, i, config, memoryFormatFilter, implementationPriority, suitable, queried) ==
    IF i > Len(implementations)
    THEN [suitable |-> suitable, queried |-> queried]
    ELSE LET implementation == implementations[i] IN
         IF /\ implementationPriority # ""
            /\ implementation.name # implementationPriority
         THEN filterLoopStopsAtUnsupported(implementations, i + 1, config,
                                           memoryFormatFilter,
                                           implementationPriority, suitable,
                                           queried)
         ELSE IF ~supports(implementation, config, memoryFormatFilter)
         THEN [suitable |-> suitable, queried |-> queried \cup {i}]
         ELSE IF implementation.shapeAgnostic
         THEN [suitable |-> Append(suitable, i), queried |-> queried \cup {i}]
         ELSE filterLoopStopsAtUnsupported(implementations, i + 1, config,
                                           memoryFormatFilter,
                                           implementationPriority,
                                           Append(suitable, i),
                                           queried \cup {i})

\* the for loop of filter() from entry i on; suitable is the list built so
\* far, queried the entries whose supports() has been called
RECURSIVE filterLoop(_, _, _, _, _, _, _)
filterLoop(implementations, i, config, memoryFormatFilter, implementationPriority, suitable, queried) ==
    IF i > Len(implementations)
    THEN [suitable |-> suitable, queried |-> queried]
    ELSE LET implementation == implementations[i] IN
         IF /\ implementationPriority # ""
            /\ implementation.name # implementationPriority
         THEN filterLoop(implementations, i + 1, config, memoryFormatFilter,
                         implementationPriority, suitable, queried)
         ELSE IF ~supports(implementation, config, memoryFormatFilter)
         THEN filterLoop(implementations, i + 1, config, memoryFormatFilter,
                         implementationPriority, suitable, queried \cup {i})
         ELSE IF implementation.shapeAgnostic
         THEN [suitable |-> Append(suitable, i), queried |-> queried \cup {i}]
         ELSE filterLoop(implementations, i + 1, config, memoryFormatFilter,
                         implementationPriority, Append(suitable, i),
                         queried \cup {i})

filter(implementations, attrs, descs, memoryFormatFilter, implementationPriority) ==
    filterLoop(implementations, 1, Config(descs, attrs), memoryFormatFilter,
               implementationPriority, <<>>, {})

(***************************************************************************)
(* ExecutorFactory::ExecutorFactory                                        *)
(***************************************************************************)
\* the constructor without its OPENVINO_ASSERT
ConstructUnchecked(attrs, context, descriptors, memoryFormatFilter, implementationPriority) ==
    /\ phase = "Unresolved"
    /\ LET f == filter(registry, attrs, descriptors, memoryFormatFilter,
                       implementationPriority)
       IN /\ asked' = f.queried
          /\ phase' = "Filtered"
          /\ m_attrs' = attrs
          /\ m_context' = context
          /\ m_suitableImplementations' = f.suitable
          /\ error' = ""
    /\ ctorArgs' = [attrs |-> attrs, context |-> context,
                    descriptors |-> descriptors,
                    memoryFormatFilter |-> memoryFormatFilter,
                    implementationPriority |-> implementationPriority]
    /\ UNCHANGED <<registry, ret, events>>
    /\ UNCHANGED <<passVars, driverVars>>

\* a constructor that builds the executor of every implementation it keeps
ConstructEager(attrs, context, descriptors, memoryFormatFilter, implementationPriority) ==
    /\ phase = "Unresolved"
    /\ LET f == filter(registry, attrs, descriptors, memoryFormatFilter,
                       implementationPriority)
       IN /\ asked' = f.queried
          /\ events' = IF f.queried # {} THEN events \cup {"create"}
                       ELSE events
          /\ IF f.suitable # <<>>
             THEN /\ phase' = "Filtered"
                  /\ m_attrs' = attrs
                  /\ m_context' = context
                  /\ m_suitableImplementations' = f.suitable
                  /\ error' = ""
             ELSE /\ phase' = "Failed"
                  /\ error' = "No suitable implementations found"
                  /\ UNCHANGED <<m_attrs, m_context,
                                 m_suitableImplementations>>
    /\ ctorArgs' = [attrs |-> attrs, context |-> context,
                    descriptors |-> descriptors,
                    memoryFormatFilter |-> memoryFormatFilter,
                    implementationPriority |-> implementationPriority]
    /\ UNCHANGED <<registry, ret>>
    /\ UNCHANGED <<passVars, driverVars>>

Construct(attrs, context, descriptors, memoryFormatFilter, implementationPriority) ==
    /\ phase = "Unresolved"
    /\ LET f == filter(registry, attrs, descriptors, memoryFormatFilter,
                       implementationPriority)
       IN /\ asked' = f.queried
          /\ IF f.suitable # <<>>
             THEN /\ phase' = "Filtered"
                  /\ m_attrs' = attrs
                  /\ m_context' = context
                  /\ m_suitableImplementations' = f.suitable
                  /\ error' = ""
             ELSE /\ phase' = "Failed"
                  /\ error' = "No suitable implementations found"
                  /\ UNCHANGED <<m_attrs, m_context,
                                 m_suitableImplementations>>
    /\ ctorArgs' = [attrs |-> attrs, context |-> context,
                    descriptors |-> descriptors,
                    memoryFormatFilter |-> memoryFormatFilter,
                    implementationPriority |-> implementationPriority]
    /\ UNCHANGED <<registry, ret, events>>
    /\ UNCHANGED <<passVars, driverVars>>

(***************************************************************************)
(* ExecutorFactory::getProperMemoryDescriptors                             *)
(***************************************************************************)
\* the lambda without the fallback query
getProperMemoryDescArgsNoFallback(impl, config) == config.descs

\* the lambda getProperMemoryDescArgs(impl, config)
getProperMemoryDescArgs(impl, config) ==
    LET fallbackConfig == requiresFallback(impl, config) IN
    IF fallbackConfig # NoFallback THEN fallbackConfig.descs ELSE config.descs

getProperMemoryDescriptors(implementations, suitableImplementations, attrs, descriptors) ==
    LET config == Config(descriptors, attrs) IN
    [k \in 1..Len(suitableImplementations) |->
        getProperMemoryDescArgs(implementations[suitableImplementations[k]],
                                config)]

GetProperMemoryDescriptors(descriptors) ==
    /\ phase = "Filtered"
    /\ ret' = [op |-> "getProperMemoryDescriptors", arg |-> descriptors,
               value |-> getProperMemoryDescriptors(
                             registry, m_suitableImplementations, m_attrs,
                             descriptors)]
    /\ UNCHANGED <<registry, phase, m_attrs, m_context,
                   m_suitableImplementations, ctorArgs, asked, error, events>>
    /\ UNCHANGED <<passVars, driverVars>>

(***************************************************************************)
(* ExecutorFactory::make                                                   *)
(***************************************************************************)
\* make with the single-implementation test off by one
makeUpToTwo(implementations, suitableImplementations, attrs, context, memory) ==
    IF Len(suitableImplementations) <= 2
    THEN LET config == createConfig(memory, attrs)
             theOnlyImplementation ==
                 implementations[Head(suitableImplementations)]
             fallbackConfig == requiresFallback(theOnlyImplementation, config)
         IN IF fallbackConfig # NoFallback
            THEN fallback(config, fallbackConfig, memory, context,
                          theOnlyImplementation.name)
            ELSE create(theOnlyImplementation, attrs, memory, context)
    ELSE VariableExecutor(memory, attrs, context, suitableImplementations)

\* make that never asks the only implementation for a fallback
makeNoFallback(implementations, suitableImplementations, attrs, context, memory) ==
    IF Len(suitableImplementations) = 1
    THEN create(implementations[Head(suitableImplementations)], attrs,
                memory, context)
    ELSE VariableExecutor(memory, attrs, context, suitableImplementations)

NullExecutor == [kind |-> "null"]

\* make that gives up with a null pointer when a fallback is required
makeNullOnFallback(implementations, suitableImplementations, attrs, context, memory) ==
    IF Len(suitableImplementations) = 1
    THEN LET config == createConfig(memory, attrs)
             theOnlyImplementation ==
                 implementations[Head(suitableImplementations)]
             fallbackConfig == requiresFallback(theOnlyImplementation, config)
         IN IF fallbackConfig # NoFallback
            THEN NullExecutor
            ELSE create(theOnlyImplementation, attrs, memory, context)
    ELSE VariableExecutor(memory, attrs, context, suitableImplementations)

\* make that asks the only candidate again whether it supports the Config of
\* the realized memory, and binds nothing when it does not
makeRecheckSupports(implementations, suitableImplementations, attrs, context, memory) ==
    IF Len(suitableImplementations) = 1
    THEN LET config == createConfig(memory, attrs)
             theOnlyImplementation ==
                 implementations[Head(suitableImplementations)]
             fallbackConfig == requiresFallback(theOnlyImplementation, config)
         IN IF ~supports(theOnlyImplementation, config, {})
            THEN NullExecutor
            ELSE IF fallbackConfig # NoFallback
            THEN fallback(config, fallbackConfig, memory, context,
                          theOnlyImplementation.name)
            ELSE create(theOnlyImplementation, attrs, memory, context)
    ELSE VariableExecutor(memory, attrs, context, suitableImplementations)

make(implementations, suitableImplementations, attrs, context, memory) ==
    IF Len(suitableImplementations) = 1
    THEN LET config == createConfig(memory, attrs)
             theOnlyImplementation ==
                 implementations[Head(suitableImplementations)]
             fallbackConfig == requiresFallback(theOnlyImplementation, config)
         IN IF fallbackConfig # NoFallback
            THEN fallback(config, fallbackConfig, memory, context,
                          theOnlyImplementation.name)
            ELSE create(theOnlyImplementation, attrs, memory, context)
    ELSE VariableExecutor(memory, attrs, context, suitableImplementations)

\* the executor-creation event behind an executor make returned: the
\* implementation's factory ran, a fallback sub-graph was synthesized, or a
\* VariableExecutor was built
creationEvent(executor) ==
    IF executor.kind = "Simple" THEN "create"
    ELSE IF executor.kind = "Fallback" THEN "fallback"
    ELSE "VariableExecutor"

\* make that moves m_suitableImplementations into the VariableExecutor
MakeMovesList(memory) ==
    /\ phase = "Filtered"
    /\ LET executor == make(registry, m_suitableImplementations, m_attrs,
                            m_context, memory)
       IN /\ ret' = [op |-> "make", arg |-> memory, value |-> executor]
          /\ events' = events \cup {creationEvent(executor)}
          /\ m_suitableImplementations' =
                IF executor.kind = "Variable" THEN <<>>
                ELSE m_suitableImplementations
    /\ UNCHANGED <<registry, phase, m_attrs, m_context, ctorArgs, asked,
                   error>>
    /\ UNCHANGED <<passVars, driverVars>>

Make(memory) ==
    /\ phase = "Filtered"
    /\ LET executor == make(registry, m_suitableImplementations, m_attrs,
                            m_context, memory)
       IN /\ ret' = [op |-> "make", arg |-> memory, value |-> executor]
          /\ events' = events \cup {creationEvent(executor)}
    /\ UNCHANGED <<registry, phase, m_attrs, m_context,
                   m_suitableImplementations, ctorArgs, asked, error>>
    /\ UNCHANGED <<passVars, driverVars>>

(***************************************************************************)
(* Graph model for the rewrite pass                                        *)
(*                                                                         *)
(* A graph is a function from node ids (the shared_ptr identities) to node *)
(* records; an input binding <<id, port>> names the output it reads.       *)
(***************************************************************************)
Node(type, version, stable, axis, mode, sort_type, index_element_type, friendly_name, rt_info, inputs) ==
    [type |-> type, version |-> version, stable |-> stable, axis |-> axis,
     mode |-> mode, sort_type |-> sort_type,
     index_element_type |-> index_element_type,
     friendly_name |-> friendly_name, rt_info |-> rt_info,
     inputs |-> inputs]

\* a node that is no TopK: the TopK attributes are absent
PlainNode(type, friendly_name, inputs) ==
    Node(type, 1, FALSE, 0, "none", "none", "none", friendly_name, "",
         inputs)

Max(S) == CHOOSE x \in S : \A y \in S : y <= x

\* identity of a newly allocated node
NewId(g) == Max(DOMAIN g) + 1

\* the ids from which the given roots are reached along input bindings,
\* roots included
RECURSIVE ReachableFrom(_, _)
ReachableFrom(g, roots) ==
    LET more == UNION {{g[n].inputs[k][1] : k \in DOMAIN g[n].inputs} :
                          n \in roots} \cap DOMAIN g
    IN IF more \subseteq roots THEN roots
       ELSE ReachableFrom(g, roots \cup more)


\* the graph as the model owner sees it: what its Result nodes reach
Collect(g) ==
    LET live == ReachableFrom(g, {n \in DOMAIN g : g[n].type = "Result"})
    IN [n \in live |-> g[n]]

(***************************************************************************)
(* ConvertTopK11ToTopK3: the matcher callback                              *)
(***************************************************************************)
\* pattern::wrap_type<opset11::TopK>() and the dynamic_pointer_cast
topk_v11_pattern(node) == node.type = "TopK" /\ node.version = 11

\* the veto the enclosing session supplies; it answers by node name
transformation_callback(vetoSet, node) == node.friendly_name \in vetoSet

\* the replacement built as an opset11 TopK again
TopKv11Again(data, k, axis, mode, sort_type, index_element_type) ==
    Node("TopK", 11, FALSE, axis, mode, sort_type, index_element_type,
         "TopK_11", "", <<data, k>>)

\* std::make_shared<opset3::TopK>(data, k, axis, mode, sort, index_type)
TopKv3(data, k, axis, mode, sort_type, index_element_type) ==
    Node("TopK", 3, FALSE, axis, mode, sort_type, index_element_type,
         "TopK_3", "", <<data, k>>)

\* Node::set_friendly_name
set_friendly_name(node, name) == [node EXCEPT !.friendly_name = name]

\* copy_runtime_info(from, to)
copy_runtime_info(from, to) == [to EXCEPT !.rt_info = from.rt_info]

\* replace_node(target, replacement): every input that reads an output of
\* target reads the same output of replacement
replace_node(g, target, replacement) ==
    [n \in DOMAIN g |->
        IF n = replacement THEN g[n]
        ELSE [g[n] EXCEPT !.inputs =
                 [k \in DOMAIN g[n].inputs |->
                     IF g[n].inputs[k][1] = target
                     THEN <<replacement, g[n].inputs[k][2]>>
                     ELSE g[n].inputs[k]]]]

\* the callback with the stability test left out
callbackIgnoreStable(g, vetoSet, root) ==
    LET topk_v11 == g[root] IN
    IF ~topk_v11_pattern(topk_v11)
    THEN [changed |-> FALSE, graph |-> g, log |-> <<"cast">>]
    ELSE IF transformation_callback(vetoSet, topk_v11)
    THEN [changed |-> FALSE, graph |-> g,
          log |-> <<"cast", "transformation_callback">>]
    ELSE LET id == NewId(g)
             topk_v3 == TopKv3(topk_v11.inputs[1], topk_v11.inputs[2],
                           topk_v11.axis, topk_v11.mode,
                           topk_v11.sort_type,
                           topk_v11.index_element_type)
             named == set_friendly_name(topk_v3, topk_v11.friendly_name)
             copied == copy_runtime_info(topk_v11, named)
         IN [changed |-> TRUE,
             graph |-> replace_node(g @@ (id :> copied), root, id),
             log |-> <<"cast", "transformation_callback", "make_shared",
                       "set_friendly_name", "copy_runtime_info",
                       "replace_node">>]

\* the callback that forgets set_friendly_name
callbackNoName(g, vetoSet, root) ==
    LET topk_v11 == g[root] IN
    IF ~topk_v11_pattern(topk_v11)
    THEN [changed |-> FALSE, graph |-> g, log |-> <<"cast">>]
    ELSE IF topk_v11.stable
    THEN [changed |-> FALSE, graph |-> g, log |-> <<"cast", "get_stable">>]
    ELSE IF transformation_callback(vetoSet, topk_v11)
    THEN [changed |-> FALSE, graph |-> g,
          log |-> <<"cast", "get_stable", "transformation_callback">>]
    ELSE LET id == NewId(g)
             topk_v3 == TopKv3(topk_v11.inputs[1], topk_v11.inputs[2],
                           topk_v11.axis, topk_v11.mode,
                           topk_v11.sort_type,
                           topk_v11.index_element_type)
             copied == copy_runtime_info(topk_v11, topk_v3)
         IN [changed |-> TRUE,
             graph |-> replace_node(g @@ (id :> copied), root, id),
             log |-> <<"cast", "get_stable", "transformation_callback",
                       "make_shared", "copy_runtime_info", "replace_node">>]

\* the callback that hands the new node an output of the original instead
\* of the original's first input
callbackReadsOriginal(g, vetoSet, root) ==
    LET topk_v11 == g[root] IN
    IF ~topk_v11_pattern(topk_v11)
    THEN [changed |-> FALSE, graph |-> g, log |-> <<"cast">>]
    ELSE IF topk_v11.stable
    THEN [changed |-> FALSE, graph |-> g, log |-> <<"cast", "get_stable">>]
    ELSE IF transformation_callback(vetoSet, topk_v11)
    THEN [changed |-> FALSE, graph |-> g,
          log |-> <<"cast", "get_stable", "transformation_callback">>]
    ELSE LET id == NewId(g)
             topk_v3 == TopKv3(<<root, 0>>, topk_v11.inputs[2],
                           topk_v11.axis, topk_v11.mode,
                           topk_v11.sort_type,
                           topk_v11.index_element_type)
             named == set_friendly_name(topk_v3, topk_v11.friendly_name)
             copied == copy_runtime_info(topk_v11, named)
         IN [changed |-> TRUE,
             graph |-> replace_node(g @@ (id :> copied), root, id),
             log |-> <<"cast", "get_stable", "transformation_callback",
                       "make_shared", "set_friendly_name",
                       "copy_runtime_info", "replace_node">>]

\* the callback that consults the veto before it reads the stability flag
callbackVetoFirst(g, vetoSet, root) ==
    LET topk_v11 == g[root] IN
    IF ~topk_v11_pattern(topk_v11)
    THEN [changed |-> FALSE, graph |-> g, log |-> <<"cast">>]
    ELSE IF transformation_callback(vetoSet, topk_v11)
    THEN [changed |-> FALSE, graph |-> g,
          log |-> <<"cast", "transformation_callback">>]
    ELSE IF topk_v11.stable
    THEN [changed |-> FALSE, graph |-> g,
          log |-> <<"cast", "transformation_callback", "get_stable">>]
    ELSE LET id == NewId(g)
             topk_v3 == TopKv3(topk_v11.inputs[1], topk_v11.inputs[2],
                           topk_v11.axis, topk_v11.mode,
                           topk_v11.sort_type,
                           topk_v11.index_element_type)
             named == set_friendly_name(topk_v3, topk_v11.friendly_name)
             copied == copy_runtime_info(topk_v11, named)
         IN [changed |-> TRUE,
             graph |-> replace_node(g @@ (id :> copied), root, id),
             log |-> <<"cast", "transformation_callback", "get_stable",
                       "make_shared", "set_friendly_name",
                       "copy_runtime_info", "replace_node">>]

\* the callback that reports a change when the veto forbids the node
callbackTrueOnVeto(g, vetoSet, root) ==
    LET topk_v11 == g[root] IN
    IF ~topk_v11_pattern(topk_v11)
    THEN [changed |-> FALSE, graph |-> g, log |-> <<"cast">>]
    ELSE IF topk_v11.stable
    THEN [changed |-> FALSE, graph |-> g, log |-> <<"cast", "get_stable">>]
    ELSE IF transformation_callback(vetoSet, topk_v11)
    THEN [changed |-> TRUE, graph |-> g,
          log |-> <<"cast", "get_stable", "transformation_callback">>]
    ELSE LET id == NewId(g)
             topk_v3 == TopKv3(topk_v11.inputs[1], topk_v11.inputs[2],
                           topk_v11.axis, topk_v11.mode,
                           topk_v11.sort_type,
                           topk_v11.index_element_type)
             named == set_friendly_name(topk_v3, topk_v11.friendly_name)
             copied == copy_runtime_info(topk_v11, named)
         IN [changed |-> TRUE,
             graph |-> replace_node(g @@ (id :> copied), root, id),
             log |-> <<"cast", "get_stable", "transformation_callback",
                       "make_shared", "set_friendly_name",
                       "copy_runtime_info", "replace_node">>]

\* the matcher callback on the match root: what it returns, the graph it
\* leaves, and the calls it made in order
callback(g, vetoSet, root) ==
    LET topk_v11 == g[root] IN
    IF ~topk_v11_pattern(topk_v11)
    THEN [changed |-> FALSE, graph |-> g, log |-> <<"cast">>]
    ELSE IF topk_v11.stable
    THEN [changed |-> FALSE, graph |-> g, log |-> <<"cast", "get_stable">>]
    ELSE IF transformation_callback(vetoSet, topk_v11)
    THEN [changed |-> FALSE, graph |-> g,
          log |-> <<"cast", "get_stable", "transformation_callback">>]
    ELSE LET id == NewId(g)
             topk_v3 == TopKv3(topk_v11.inputs[1], topk_v11.inputs[2],
                           topk_v11.axis, topk_v11.mode,
                           topk_v11.sort_type,
                           topk_v11.index_element_type)
             named == set_friendly_name(topk_v3, topk_v11.friendly_name)
             copied == copy_runtime_info(topk_v11, named)
         IN [changed |-> TRUE,
             graph |-> replace_node(g @@ (id :> copied), root, id),
             log |-> <<"cast", "get_stable", "transformation_callback",
                       "make_shared", "set_friendly_name",
                       "copy_runtime_info", "replace_node">>]

\* the pass applied to one node of the graph; the original is released when
\* the callback returns and nothing refers to it any more
ApplyPass(n) ==
    /\ n \in DOMAIN nodes
    /\ LET r == callback(nodes, vetoed, n)
       IN /\ nodes' = Collect(r.graph)
          /\ passRet' = [node |-> n, changed |-> r.changed]
          /\ callLog' = r.log
    /\ UNCHANGED vetoed
    /\ UNCHANGED factoryVars

\* one application outside any driver
Apply(n) == ApplyPass(n) /\ UNCHANGED driverVars

(***************************************************************************)
(* The pass-iteration driver: sweeps the pass over all nodes until a full  *)
(* sweep reports no true, or the iteration ceiling is hit                  *)
(***************************************************************************)
\* the iteration ceiling
MaxSweeps == 3

\* a sweep goes in topological order: a node is visited once the nodes it
\* reads have been
Ready(n) ==
    /\ n \in pending
    /\ \A k \in DOMAIN nodes[n].inputs : nodes[n].inputs[k][1] \notin pending

Visit(n) ==
    /\ driverState = "sweeping"
    /\ Ready(n)
    /\ ApplyPass(n)
    /\ pending' = pending \ {n}
    /\ sweepChanged' = (sweepChanged \/ passRet'.changed)
    /\ successes' = IF passRet'.changed THEN successes + 1 ELSE successes
    /\ UNCHANGED <<driverState, sweeps, startV11>>

EndSweep ==
    /\ driverState = "sweeping"
    /\ pending = {}
    /\ sweeps' = sweeps + 1
    /\ IF ~sweepChanged
       THEN driverState' = "done" /\ UNCHANGED pending
       ELSE IF sweeps + 1 >= MaxSweeps
       THEN driverState' = "ceiling" /\ UNCHANGED pending
       ELSE driverState' = "sweeping" /\ pending' = DOMAIN nodes
    /\ sweepChanged' = FALSE
    /\ UNCHANGED <<successes, startV11>>
    /\ UNCHANGED <<factoryVars, passVars>>

(***************************************************************************)
(* Initial graphs                                                          *)
(***************************************************************************)
TopKAttributes ==
    [axis : {0, 1}, mode : {"max", "min"}, sort_type : {"value", "index"},
     index_element_type : {"i32", "i64"}]

\* what a TopK node can be: v3, v11 with stable sort, v11 without
TopKKinds ==
    {[version |-> 3, stable |-> FALSE],
     [version |-> 11, stable |-> TRUE],
     [version |-> 11, stable |-> FALSE]}

TopKNode(kind, a, friendly_name, rt_info, data, k) ==
    Node("TopK", kind.version, kind.stable, a.axis, a.mode, a.sort_type,
         a.index_element_type, friendly_name, rt_info, <<data, k>>)

\* Parameter 1 and Constant 2 feed TopK 3 ("topk_a"); TopK 4 ("topk_b")
\* reads the parameter or an output of topk_a; Concat 5 and the Results 6
\* and 7 consume TopK outputs
InitialGraphs ==
    {Collect(
        (1 :> PlainNode("Parameter", "data", <<>>)) @@
        (2 :> PlainNode("Constant", "k", <<>>)) @@
        (3 :> TopKNode(ka, aa, "topk_a", "rt_a", <<1, 0>>, <<2, 0>>)) @@
        (4 :> TopKNode(kb, ab, "topk_b", "rt_b", db, <<2, 0>>)) @@
        (5 :> PlainNode("Concat", "concat", c)) @@
        (6 :> PlainNode("Result", "result_0", <<<<5, 0>>>>)) @@
        (7 :> PlainNode("Result", "result_1", <<r>>))) :
        ka \in TopKKinds, kb \in TopKKinds,
        aa \in TopKAttributes,
        ab \in {[axis |-> 0, mode |-> "max", sort_type |-> "value",
                 index_element_type |-> "i32"],
                [axis |-> 1, mode |-> "min", sort_type |-> "index",
                 index_element_type |-> "i64"]},
        db \in {<<1, 0>>, <<3, 0>>, <<3, 1>>},
        c \in {<<<<3, 0>>, <<4, 0>>>>, <<<<3, 1>>, <<3, 0>>>>,
               <<<<4, 1>>, <<4, 1>>>>},
        r \in {<<3, 1>>, <<4, 0>>, <<1, 0>>}}

NoGraph == <<>>
NoPassRet == [node |-> 0, changed |-> FALSE]

(***************************************************************************)
(* Specification of the factory                                            *)
(***************************************************************************)
FactoryInit(registries) ==
    /\ registry \in registries
    /\ phase = "Unresolved"
    /\ m_attrs = "unset"
    /\ m_context = "unset"
    /\ m_suitableImplementations = <<>>
    /\ ctorArgs = NoArgs
    /\ asked = {}
    /\ error = ""
    /\ ret = NoRet
    /\ events = {}

PassInitOn(graphs, vetoSets) ==
    /\ nodes \in graphs
    /\ vetoed \in vetoSets
    /\ passRet = NoPassRet
    /\ callLog = <<>>

\* no driver is running
DriverIdle ==
    /\ driverState = "idle"
    /\ pending = {}
    /\ sweepChanged = FALSE
    /\ sweeps = 0
    /\ successes = 0
    /\ startV11 = 0

Init == FactoryInit(Registries) /\ PassInitOn({NoGraph}, {{}}) /\ DriverIdle

Next ==
    \/ \E attrs \in AttrsSet, context \in Contexts,
          descriptors \in MemoryDescArgs,
          memoryFormatFilter \in MemoryFormatFilters,
          implementationPriority \in Names \cup {""} :
          Construct(attrs, context, descriptors, memoryFormatFilter,
                    implementationPriority)
    \/ \E descriptors \in MemoryDescArgs :
          GetProperMemoryDescriptors(descriptors)
    \/ \E memory \in MemoryArgs : Make(memory)

Spec == Init /\ [][Next]_vars

(***************************************************************************)
(* Specification of the rewrite pass                                       *)
(***************************************************************************)
PassInit ==
    /\ FactoryInit({<<>>})
    /\ PassInitOn(InitialGraphs, SUBSET {"topk_a", "topk_b"})
    /\ DriverIdle

PassNext == \E n \in DOMAIN nodes : Apply(n)

PassSpec == PassInit /\ [][PassNext]_vars

(***************************************************************************)
(* Specification of the driver running the pass                            *)
(***************************************************************************)
V11Nodes(g) == {n \in DOMAIN g : g[n].type = "TopK" /\ g[n].version = 11}

\* the graphs the driver is run on: the initial graphs whose TopK nodes take
\* the largest values along axis 0, sorted by value
DriverGraphs ==
    {g \in InitialGraphs :
        \A n \in DOMAIN g :
            g[n].type = "TopK" =>
                g[n].axis = 0 /\ g[n].mode = "max" /\ g[n].sort_type = "value"}

DriverInit ==
    /\ FactoryInit({<<>>})
    /\ PassInitOn(DriverGraphs, SUBSET {"topk_a", "topk_b"})
    /\ driverState = "sweeping"
    /\ pending = DOMAIN nodes
    /\ sweepChanged = FALSE
    /\ sweeps = 0
    /\ successes = 0
    /\ startV11 = Cardinality(V11Nodes(nodes))

DriverNext ==
    \/ \E n \in pending : Visit(n)
    \/ EndSweep

\* the driver is a plain loop: while it has a step to take it takes it
DriverSpec == DriverInit /\ [][DriverNext]_vars /\ WF_vars(DriverNext)

(***************************************************************************)
(* Properties of the factory                                               *)
(***************************************************************************)
\* what filter() yields for the arguments the constructor was given
Filtered ==
    filter(registry, ctorArgs.attrs, ctorArgs.descriptors,
           ctorArgs.memoryFormatFilter, ctorArgs.implementationPriority)

\* the k-th candidate's descriptor
Candidate(k) == registry[m_suitableImplementations[k]]

\* C1: construction succeeds exactly when filter() yields a candidate and
\* fails with "No suitable implementations found" when it yields none; a
\* constructed factory holds at least one candidate in every state, also
\* after any getProperMemoryDescriptors and make calls.
C1_NonEmptyCandidates ==
    /\ phase \in {"Unresolved", "Filtered", "Failed"}
    /\ phase = "Filtered" =>
          /\ Filtered.suitable # <<>>
          /\ Len(m_suitableImplementations) >= 1
          /\ error = ""
    /\ phase = "Failed" =>
          /\ Filtered.suitable = <<>>
          /\ error = "No suitable implementations found"
          /\ ret = NoRet
    /\ ret # NoRet => phase = "Filtered"

C1_Witness ==
    /\ phase = "Filtered"
    /\ ret.op = "make"
    /\ Len(registry) > Len(m_suitableImplementations)
    /\ Len(m_suitableImplementations) = 1

\* C2: with exactly one candidate make yields a Simple or a Fallback
\* executor, never a Variable one; with two or more candidates it yields a
\* Variable executor holding the whole candidate list.
C2_MakeShape ==
    ret.op = "make" =>
        /\ Len(m_suitableImplementations) = 1 =>
              ret.value.kind \in {"Simple", "Fallback"}
        /\ Len(m_suitableImplementations) >= 2 =>
              /\ ret.value.kind = "Variable"
              /\ ret.value.implementations = m_suitableImplementations

C2_Witness ==
    /\ ret.op = "make"
    /\ Len(m_suitableImplementations) = 2
    /\ ret.value.kind = "Variable"

\* C3: the candidate list is an order-preserving subsequence of the
\* registry: every candidate is a registry entry, none appears twice, and
\* candidates come in registry order.
C3_PriorityPreserved ==
    phase = "Filtered" =>
        /\ \A k \in 1..Len(m_suitableImplementations) :
              m_suitableImplementations[k] \in 1..Len(registry)
        /\ \A j, k \in 1..Len(m_suitableImplementations) :
              j < k =>
                 m_suitableImplementations[j] < m_suitableImplementations[k]

C3_Witness ==
    /\ phase = "Filtered"
    /\ m_suitableImplementations = <<1, 3>>

\* C4: once a shape-agnostic implementation is appended, no lower-priority
\* entry follows it or is even asked: only the last candidate can be
\* shape-agnostic.  Registry [A: F1; B: F1, F2, shape-agnostic; C: F2] with
\* F2 requested gives exactly [B], and C is never considered.
C4_ShapeAgnosticShortCircuit ==
    /\ phase = "Filtered" =>
          \A k \in 1..Len(m_suitableImplementations) :
              Candidate(k).shapeAgnostic =>
                 /\ k = Len(m_suitableImplementations)
                 /\ \A i \in asked : i <= m_suitableImplementations[k]
    /\ ( /\ phase # "Unresolved"
         /\ registry \in ScenarioRegistries
         /\ ctorArgs.descriptors = "F2"
         /\ ctorArgs.memoryFormatFilter = {}
         /\ ctorArgs.implementationPriority = "" ) =>
          /\ phase = "Filtered"
          /\ m_suitableImplementations = <<2>>
          /\ asked = {1, 2}

C4_Witness ==
    /\ phase = "Filtered"
    /\ registry \in ScenarioRegistries
    /\ ctorArgs.descriptors = "F2"
    /\ ctorArgs.memoryFormatFilter = {}
    /\ ctorArgs.implementationPriority = ""
    /\ m_suitableImplementations = <<2>>

\* C5: with a single candidate make asks that candidate's fallback
\* predicate on the Config of the realized memory arguments; it yields a
\* Fallback executor tagged with the candidate's name exactly when the
\* predicate requests a fallback, and otherwise the Simple executor of the
\* candidate's factory.
C5_FallbackAtBuildTime ==
    (ret.op = "make" /\ Len(m_suitableImplementations) = 1) =>
        LET realized == Config(ret.arg.desc, m_attrs)
            fallbackConfig == requiresFallback(Candidate(1), realized)
        IN /\ ret.value.kind = "Fallback" <=> fallbackConfig # NoFallback
           /\ fallbackConfig # NoFallback =>
                 /\ ret.value.name = Candidate(1).name
                 /\ ret.value.config = realized
                 /\ ret.value.fallbackConfig = fallbackConfig
           /\ fallbackConfig = NoFallback =>
                 ret.value = create(Candidate(1), m_attrs, ret.arg, m_context)

\* the realized arguments need a fallback the constructor's descriptors
\* did not
C5_Witness ==
    /\ ret.op = "make"
    /\ Len(m_suitableImplementations) = 1
    /\ ret.value.kind = "Fallback"
    /\ ret.arg.desc # ctorArgs.descriptors
    /\ requiresFallback(Candidate(1),
                        Config(ctorArgs.descriptors, m_attrs)) = NoFallback

\* C6: getProperMemoryDescriptors returns one descriptor set per candidate,
\* in candidate order: the fallback config's descriptors when that
\* candidate's fallback predicate asks for a fallback on Config(given
\* descriptors, m_attrs), and the given descriptors otherwise.
C6_ProperDescriptorsParallel ==
    ret.op = "getProperMemoryDescriptors" =>
        /\ Len(ret.value) = Len(m_suitableImplementations)
        /\ \A k \in 1..Len(m_suitableImplementations) :
              LET fallbackConfig ==
                      requiresFallback(Candidate(k), Config(ret.arg, m_attrs))
              IN ret.value[k] = IF fallbackConfig # NoFallback
                                THEN fallbackConfig.descs
                                ELSE ret.arg

C6_Witness ==
    /\ ret.op = "getProperMemoryDescriptors"
    /\ Len(ret.value) = 3
    /\ ret.value[1] # ret.arg
    /\ ret.value[2] = ret.arg
    /\ requiresFallback(Candidate(3), Config(ret.arg, m_attrs)) # NoFallback

\* where the resolution of the node stands
ResolutionState ==
    IF phase = "Unresolved" THEN "Unresolved"
    ELSE IF phase = "Failed" THEN "Failed"
    ELSE IF ret.op # "make" THEN "Filtered"
    ELSE IF ret.value.kind \in {"Simple", "Fallback"} THEN "Bound"
    ELSE IF ret.value.kind = "Variable" THEN "Deferred"
    ELSE "NoExecutor"

\* C7: every make call on a constructed factory returns an executor and
\* leaves the resolution in Bound (Simple or Fallback) or Deferred
\* (Variable); Unresolved only moves to Filtered or Failed, and nothing
\* follows a failed construction.
C7_MakeReachesTerminal ==
    [][ /\ ResolutionState = "Unresolved" =>
              ResolutionState' \in {"Filtered", "Failed"}
        /\ ResolutionState # "Failed"
        /\ (ret'.op = "make" /\ ret' # ret) =>
              /\ ResolutionState \in {"Filtered", "Bound", "Deferred"}
              /\ ResolutionState' \in {"Bound", "Deferred"}
              /\ ret'.value.kind \in {"Simple", "Fallback", "Variable"}
        /\ ResolutionState' # "NoExecutor" ]_vars

C7_Witness ==
    /\ ResolutionState = "Bound"
    /\ ret.value.kind = "Fallback"
    /\ Len(registry) >= 2

\* a registry entry the constructor's arguments accept, whatever its name
SupportsCtorConfig(i) ==
    supports(registry[i], Config(ctorArgs.descriptors, ctorArgs.attrs),
             ctorArgs.memoryFormatFilter)

\* C8: with a non-empty priority override every candidate has that name and
\* entries of another name are skipped without supports() being asked; when
\* no entry of that name supports the config, construction fails with the
\* same fatal error, even if other implementations support the config.
C8_PriorityOverride ==
    (phase # "Unresolved" /\ ctorArgs.implementationPriority # "") =>
        /\ \A k \in 1..Len(m_suitableImplementations) :
              Candidate(k).name = ctorArgs.implementationPriority
        /\ \A i \in asked :
              registry[i].name = ctorArgs.implementationPriority
        /\ (\A i \in 1..Len(registry) :
               registry[i].name = ctorArgs.implementationPriority =>
                  ~SupportsCtorConfig(i)) =>
              /\ phase = "Failed"
              /\ error = "No suitable implementations found"

C8_Witness ==
    /\ phase = "Failed"
    /\ ctorArgs.implementationPriority # ""
    /\ \E i \in 1..Len(registry) :
          registry[i].name = ctorArgs.implementationPriority
    /\ \E i \in 1..Len(registry) : SupportsCtorConfig(i)

(***************************************************************************)
(* Properties of the rewrite pass                                          *)
(***************************************************************************)
\* the pass has to decline node n of graph g
Declines(g, n) ==
    \/ ~(g[n].type = "TopK" /\ g[n].version = 11)
    \/ g[n].stable
    \/ g[n].friendly_name \in vetoed

\* C9: applied to a node that is no TopK-v11, or to a TopK-v11 whose
\* stability flag is true, or to one the veto callback forbids, the pass
\* returns false and leaves the graph (node set, every node's attributes,
\* name, provenance and input bindings) exactly as it was.
C9_DeclinedRewriteLeavesGraph ==
    [][ (passRet'.node \in DOMAIN nodes /\ Declines(nodes, passRet'.node)) =>
           /\ passRet'.changed = FALSE
           /\ nodes' = nodes ]_vars

C9_Witness ==
    /\ passRet.node \in DOMAIN nodes
    /\ passRet.changed = FALSE
    /\ nodes[passRet.node].type = "TopK"
    /\ nodes[passRet.node].version = 11
    /\ nodes[passRet.node].stable

\* the binding b after every reference to node old is moved to node new
Rewired(b, old, new) == IF b[1] = old THEN <<new, b[2]>> ELSE b

\* C10: applied to a TopK-v11 node with stability flag false that the veto
\* callback allows, the pass returns true; a new v3 node carries the
\* original's name, provenance, two input bindings in order, axis, mode,
\* sort type and index element type; every consumer binding of an output
\* of the original now names the same output of the new node; the original
\* is gone from the graph, and nothing else changed.
C10_SuccessfulRewrite ==
    [][ (passRet'.node \in DOMAIN nodes /\ ~Declines(nodes, passRet'.node)) =>
           LET old == passRet'.node IN
           /\ passRet'.changed = TRUE
           /\ old \notin DOMAIN nodes'
           /\ \E new \in DOMAIN nodes' \ DOMAIN nodes :
                 /\ DOMAIN nodes' = (DOMAIN nodes \ {old}) \cup {new}
                 /\ nodes'[new].type = "TopK"
                 /\ nodes'[new].version = 3
                 /\ nodes'[new].friendly_name = nodes[old].friendly_name
                 /\ nodes'[new].rt_info = nodes[old].rt_info
                 /\ nodes'[new].inputs = nodes[old].inputs
                 /\ nodes'[new].axis = nodes[old].axis
                 /\ nodes'[new].mode = nodes[old].mode
                 /\ nodes'[new].sort_type = nodes[old].sort_type
                 /\ nodes'[new].index_element_type =
                       nodes[old].index_element_type
                 /\ \A c \in DOMAIN nodes \ {old} :
                       nodes'[c] =
                          [nodes[c] EXCEPT !.inputs =
                              [k \in DOMAIN nodes[c].inputs |->
                                  Rewired(nodes[c].inputs[k], old, new)]] ]_vars

\* a rewritten node both of whose outputs have consumers
C10_Witness ==
    /\ passRet.changed = TRUE
    /\ passRet.node \notin DOMAIN nodes
    /\ \E new \in DOMAIN nodes :
          /\ new > passRet.node
          /\ nodes[new].version = 3
          /\ nodes[new].friendly_name = "topk_a"
          /\ \E c \in DOMAIN nodes : \E k \in DOMAIN nodes[c].inputs :
                nodes[c].inputs[k] = <<new, 0>>
          /\ \E c \in DOMAIN nodes : \E k \in DOMAIN nodes[c].inputs :
                nodes[c].inputs[k] = <<new, 1>>

\* C11: a replacement node is a v3 node and never matches the v11 pattern;
\* once one full sweep of the pass over the graph is complete, applying the
\* pass to every node of the resulting graph (same veto answers) returns
\* false for every node and leaves the graph unchanged.
C11_Idempotence ==
    [][ /\ \A n \in DOMAIN nodes' \ DOMAIN nodes :
              ~topk_v11_pattern(nodes'[n])
        /\ sweeps >= 1 =>
              /\ nodes' = nodes
              /\ passRet'.changed = FALSE ]_vars

\* the second sweep is over, and it went over a replacement of the first
C11_Witness ==
    /\ driverState = "done"
    /\ sweeps = 2
    /\ successes = 2
    /\ passRet.changed = FALSE
    /\ \E n \in DOMAIN nodes :
          /\ n \notin 1..7
          /\ nodes[n].version = 3
          /\ nodes[n].friendly_name = "topk_b"

\* the nodes whose outputs node n of graph g reads
Producers(g, n) == {g[n].inputs[k][1] : k \in DOMAIN g[n].inputs}

\* the output ports a node has
OutputPorts(node) == IF node.type = "TopK" THEN {0, 1} ELSE {0}

Acyclic(g) ==
    \A n \in DOMAIN g :
        n \notin ReachableFrom(g, Producers(g, n) \cap DOMAIN g)

NoDanglingReference(g) ==
    \A n \in DOMAIN g : \A k \in DOMAIN g[n].inputs :
        /\ g[n].inputs[k][1] \in DOMAIN g
        /\ g[n].inputs[k][2] \in OutputPorts(g[g[n].inputs[k][1]])

\* C12: in every state reached by any sequence of pass applications the
\* graph is acyclic and no input binding names a node outside the graph; a
\* rewrite is all or nothing: the original and its replacement (the two
\* nodes of one name) are never in the graph together, and after a rewrite
\* no binding names the original.
C12_GraphWellFormed ==
    /\ Acyclic(nodes)
    /\ NoDanglingReference(nodes)
    /\ \A a, b \in DOMAIN nodes :
          nodes[a].friendly_name = nodes[b].friendly_name => a = b
    /\ passRet.changed =>
          /\ passRet.node \notin DOMAIN nodes
          /\ \A n \in DOMAIN nodes : passRet.node \notin Producers(nodes, n)

\* both TopK nodes rewritten, the second reading an output of the first
C12_Witness ==
    /\ passRet.changed
    /\ \E a, b \in DOMAIN nodes :
          /\ a \notin 1..7
          /\ b \notin 1..7
          /\ nodes[a].friendly_name = "topk_a"
          /\ nodes[b].friendly_name = "topk_b"
          /\ nodes[b].inputs[1] = <<a, 1>>
          /\ \E c \in 1..7 : c \in DOMAIN nodes /\ a \in Producers(nodes, c)

Passes(i) ==
    /\ \/ ctorArgs.implementationPriority = ""
       \/ registry[i].name = ctorArgs.implementationPriority
    /\ SupportsCtorConfig(i)

\* entry i is not behind a passing shape-agnostic entry
Kept(i) ==
    /\ Passes(i)
    /\ ~\E j \in 1..(i - 1) : Passes(j) /\ registry[j].shapeAgnostic

\* C15: the candidate list is, in registry order, exactly the entries that
\* match the priority override (if set), support Config(descriptors, attrs)
\* under the layout filter, and have no passing shape-agnostic entry before
\* them; nothing else is in it and none of them is left out.  Entries with
\* overlapping support are all kept, in registry order.
C15_FilterExact ==
    phase # "Unresolved" =>
        LET expected == SelectSeq([i \in 1..Len(registry) |-> i], Kept)
        IN /\ Filtered.suitable = expected
           /\ phase = "Filtered" => m_suitableImplementations = expected
           /\ phase = "Failed" => expected = <<>>

\* three entries that all support the config are all kept, in order
C15_Witness ==
    /\ phase = "Filtered"
    /\ m_suitableImplementations = <<1, 2, 3>>
    /\ ctorArgs.memoryFormatFilter # {}

\* C16: the candidate list is produced once, by the constructor, and never
\* changes: after any sequence of getProperMemoryDescriptors and make calls
\* (fallback-triggering ones included) the list, the attrs and the context
\* are what construction left, and a call returns what the same call
\* returns on the factory as constructed, so repeating it repeats the
\* result.
C16_NoMutationAfterConstruction ==
    phase = "Filtered" =>
        /\ m_suitableImplementations = Filtered.suitable
        /\ m_attrs = ctorArgs.attrs
        /\ m_context = ctorArgs.context
        /\ ret.op = "make" =>
              ret.value = make(registry, Filtered.suitable, ctorArgs.attrs,
                               ctorArgs.context, ret.arg)
        /\ ret.op = "getProperMemoryDescriptors" =>
              ret.value = getProperMemoryDescriptors(
                              registry, Filtered.suitable, ctorArgs.attrs,
                              ret.arg)

\* a query after make calls that gave a Simple and a Fallback executor
C16_Witness ==
    /\ ret.op = "getProperMemoryDescriptors"
    /\ events = {"create", "fallback"}
    /\ ret.value # <<ret.arg>>

\* C17: resolution failures are detected before any executor is
\* constructed: the constructor's step (the one that leaves "Unresolved")
\* raises no creation event, whether it succeeds or fails; when it fails
\* with an empty candidate list no creation event has occurred, and from a
\* failed factory none ever occurs.
C17_FailureBeforeCreation ==
    [][ /\ phase = "Unresolved" => events = {} /\ events' = {}
        /\ phase' = "Failed" => events' = {}
        /\ events' # events => phase = "Filtered" /\ ret'.op = "make" ]_vars

\* a construction that queried implementations and found none suitable
C17_Witness ==
    /\ phase = "Failed"
    /\ asked # {}
    /\ error = "No suitable implementations found"
    /\ events = {}

\* positions of a call in the log of the last apply
CallsOf(call) == {i \in 1..Len(callLog) : callLog[i] = call}

\* the calls that create the replacement, rewire or remove
MutationCalls == {"make_shared", "set_friendly_name", "copy_runtime_info", "replace_node"}

\* C18: in every apply call the veto callback is consulted at most once,
\* only after the pattern matched and the stability flag was read as false,
\* and before every call that creates the replacement, rewires or removes;
\* no mutation happens without the veto having been consulted and having
\* allowed it; for a node whose stability flag is true the veto callback is
\* not invoked, even when it would forbid the node.
C18_VetoOrdering ==
    LET veto == CallsOf("transformation_callback")
        applied == passRet.node
    IN /\ Cardinality(veto) <= 1
       /\ \A v \in veto :
             \E c \in CallsOf("cast"), s \in CallsOf("get_stable") :
                 c < s /\ s < v
       /\ \A i \in 1..Len(callLog) :
             callLog[i] \in MutationCalls => \E v \in veto : v < i
       /\ veto # {} /\ applied \in DOMAIN nodes =>
             /\ topk_v11_pattern(nodes[applied])
             /\ ~nodes[applied].stable
             /\ transformation_callback(vetoed, nodes[applied])
       /\ passRet.changed => veto # {}
       /\ /\ applied \in DOMAIN nodes
          /\ topk_v11_pattern(nodes[applied])
          /\ nodes[applied].stable
          => veto = {}

\* the pass was applied to a stable TopK-v11 node the veto would forbid
C18_Witness ==
    /\ passRet.node \in DOMAIN nodes
    /\ topk_v11_pattern(nodes[passRet.node])
    /\ nodes[passRet.node].stable
    /\ transformation_callback(vetoed, nodes[passRet.node])
    /\ callLog = <<"cast", "get_stable">>

\* the TopK-v3 nodes of graph g
V3Nodes(g) == {n \in DOMAIN g : g[n].type = "TopK" /\ g[n].version = 3}

\* C19: the driver that sweeps the pass over all nodes until a full sweep
\* reports no change terminates, and never by the iteration ceiling: every
\* successful application removes exactly one v11 node and adds one v3
\* node, so the successes and the v11 nodes left always add up to the
\* initial number of v11 nodes, and when the driver is done every v11 node
\* left is stable or vetoed.
C19_DriverTerminates ==
    /\ <>(driverState = "done")
    /\ [](/\ driverState # "ceiling"
          /\ sweeps < MaxSweeps
          /\ successes + Cardinality(V11Nodes(nodes)) = startV11
          /\ successes <= startV11
          /\ driverState = "done" =>
                \A n \in V11Nodes(nodes) :
                    \/ nodes[n].stable
                    \/ transformation_callback(vetoed, nodes[n]))
    /\ [][ successes' # successes =>
              /\ successes' = successes + 1
              /\ Cardinality(V11Nodes(nodes')) + 1 = Cardinality(V11Nodes(nodes))
              /\ Cardinality(V3Nodes(nodes')) = Cardinality(V3Nodes(nodes)) + 1
              /\ V3Nodes(nodes') \ V3Nodes(nodes) = DOMAIN nodes' \ DOMAIN nodes
              /\ V11Nodes(nodes') \subseteq V11Nodes(nodes) ]_vars

\* the driver is done after a rewrite, with a vetoed v11 node left
C19_Witness ==
    /\ driverState = "done"
    /\ successes = 1
    /\ startV11 = 2
    /\ \E n \in V11Nodes(nodes) :
          /\ ~nodes[n].stable
          /\ transformation_callback(vetoed, nodes[n])

\* C20: the support predicate is evaluated only by the constructor, against
\* the construction-time descriptors: the entries asked are those filter()
\* asked, whatever make calls followed. With a single candidate make binds
\* the executor to that candidate, directly or through a fallback, whether
\* or not the candidate supports the Config of the realized memory.
C20_SupportsOnlyAtConstruction ==
    /\ phase # "Unresolved" => asked = Filtered.queried
    /\ ret.op = "make" /\ Len(m_suitableImplementations) = 1 =>
          /\ ret.value.kind \in {"Simple", "Fallback"}
          /\ ret.value.name = Candidate(1).name
          /\ ret.value.kind = "Simple" <=>
                requiresFallback(Candidate(1),
                                 createConfig(ret.arg, m_attrs)) = NoFallback

\* make bound the only candidate directly although it does not support the
\* Config of the realized memory
C20_Witness ==
    /\ ret.op = "make"
    /\ Len(m_suitableImplementations) = 1
    /\ ~supports(Candidate(1), createConfig(ret.arg, m_attrs),
                 ctorArgs.memoryFormatFilter)
    /\ ~supports(Candidate(1), createConfig(ret.arg, m_attrs), {})
    /\ ret.value.kind = "Simple"
    /\ ret.value.name = Candidate(1).name

====
